---- MODULE Spec2Model ----
(***************************************************************************)
(* Model of the dialogue client of Music-Detector:                         *)
(*   src/src/music_game/llm/dialogue.py                                    *)
(*     DialogueTurn, OllamaClient.__init__, OllamaClient.generate,         *)
(*     _build_prompt.                                                      *)
(*                                                                         *)
(* Text is a sequence of symbols.  Every character that comes from an      *)
(* input (labels, roles, contents, model name, response fields) and every  *)
(* line break is one symbol; a fixed phrase of the source (a literal of an *)
(* f-string) is one symbol holding the whole phrase, never containing a    *)
(* line break.                                                             *)
(***************************************************************************)
EXTENDS Integers, Sequences, FiniteSets, TLC

(* ---------------------------------------------------------------------- *)
(* Bounds                                                                   *)
(* ---------------------------------------------------------------------- *)
\* number of callers that may run generate concurrently on the one client
NumCalls == 2
\* longest conversation history handed to the prompt builder
MaxHistory == 2

Calls == 1..NumCalls

(* ---------------------------------------------------------------------- *)
(* Python str operations, as the code uses them                             *)
(* ---------------------------------------------------------------------- *)
NL == "\n"

LowerLetters ==
  <<"a","b","c","d","e","f","g","h","i","j","k","l","m",
    "n","o","p","q","r","s","t","u","v","w","x","y","z">>

UpperLetters ==
  <<"A","B","C","D","E","F","G","H","I","J","K","L","M",
    "N","O","P","Q","R","S","T","U","V","W","X","Y","Z">>

IsLower(ch) == \E i \in 1..26 : LowerLetters[i] = ch

IsUpper(ch) == \E i \in 1..26 : UpperLetters[i] = ch

\* str.isalpha-like "cased" test used by str.title
IsCased(ch) == IsLower(ch) \/ IsUpper(ch)

Upper(ch) ==
  IF IsLower(ch)
    THEN UpperLetters[CHOOSE i \in 1..26 : LowerLetters[i] = ch]
    ELSE ch

Lower(ch) ==
  IF IsUpper(ch)
    THEN LowerLetters[CHOOSE i \in 1..26 : UpperLetters[i] = ch]
    ELSE ch

\* turn.role.title(): a cased character is upper-cased when the character
\* before it is not cased (or there is none) and lower-cased otherwise
Title(s) ==
  [i \in 1..Len(s) |->
     IF IsCased(s[i])
       THEN IF i > 1 /\ IsCased(s[i-1]) THEN Lower(s[i]) ELSE Upper(s[i])
       ELSE s[i]]

Whitespace == {" ", NL, "\t"}

\* content.strip(): drops leading and trailing whitespace
Strip(s) ==
  LET keep == {i \in 1..Len(s) : s[i] \notin Whitespace}
  IN  IF keep = {} THEN <<>>
      ELSE LET first == CHOOSE i \in keep : \A j \in keep : i <= j
               last  == CHOOSE i \in keep : \A j \in keep : j <= i
           IN  SubSeq(s, first, last)

\* base_url.rstrip("/"): drops every trailing "/"
RStripSlash(s) ==
  LET keep == {i \in 1..Len(s) : s[i] # "/"}
  IN  IF keep = {} THEN <<>>
      ELSE SubSeq(s, 1, CHOOSE i \in keep : \A j \in keep : j <= i)

RECURSIVE Join(_, _)
\* sep.join(parts)
Join(sep, parts) ==
  IF parts = <<>> THEN <<>>
  ELSE IF Len(parts) = 1 THEN parts[1]
  ELSE parts[1] \o sep \o Join(sep, Tail(parts))

(* ---------------------------------------------------------------------- *)
(* Values                                                                   *)
(* ---------------------------------------------------------------------- *)
\* DialogueTurn(role, content)
DialogueTurn(role, content) == [role |-> role, content |-> content]

\* Optional[str]: None or a str
None == [some |-> FALSE, v |-> <<>>]

Some(v) == [some |-> TRUE, v |-> v]

\* truth value of an Optional[str] in the test of key_label
TruthyOpt(o) == o.some /\ o.v # <<>>

\* f"{key_label}": None renders as the text None
FormatOpt(o) == IF o.some THEN o.v ELSE <<"N","o","n","e">>

\* a descriptor value: float | str
StrValue(s) == [kind |-> "str", s |-> s, n |-> 0]

FloatValue(n) == [kind |-> "float", s |-> <<>>, n |-> n]

Digits == <<"0","1","2","3","4","5","6","7","8","9">>

\* f"{value}" of a descriptor value (whole floats 0.0 .. 9.0 print as d.0)
FormatValue(v) ==
  IF v.kind = "str" THEN v.s ELSE <<Digits[v.n + 1], ".", "0">>

(* ---------------------------------------------------------------------- *)
(* _build_prompt                                                            *)
(* ---------------------------------------------------------------------- *)
\* a dialogue_context filled newest turn first
DialogueContextReversed(history) ==
  IF history.some /\ history.v # <<>>
    THEN [i \in 1..Len(history.v) |->
            Title(history.v[Len(history.v) + 1 - i].role) \o <<":", " ">>
              \o history.v[Len(history.v) + 1 - i].content]
    ELSE <<>>

\* dialogue_context: one entry per turn of the history, in order
DialogueContext(history) ==
  IF history.some /\ history.v # <<>>
    THEN [i \in 1..Len(history.v) |->
            Title(history.v[i].role) \o <<":", " ">> \o history.v[i].content]
    ELSE <<>>

\* descriptor_lines: one entry per item of the mapping, in insertion order
DescriptorLines(descriptors) ==
  IF descriptors.some /\ descriptors.v # <<>>
    THEN [i \in 1..Len(descriptors.v) |->
            <<"-", " ">> \o descriptors.v[i].key \o <<":", " ">>
              \o FormatValue(descriptors.v[i].value)]
    ELSE <<>>

DescriptorBlock(descriptors) ==
  IF DescriptorLines(descriptors) # <<>>
    THEN Join(<<NL>>, DescriptorLines(descriptors))
    ELSE <<"- No detailed descriptors">>

ContextBlock(history) == Join(<<NL>>, DialogueContext(history))

KeyInfo(key_label) ==
  IF TruthyOpt(key_label)
    THEN <<"Detected key: ">> \o key_label.v \o <<".", NL>>
    ELSE <<>>

PreviousDialogueHeader == "Previous dialogue (most recent last):"

ClosingInstruction ==
  "Respond with empathetic, emotionally supportive words, as if from a deeply attentive partner. (min 2 sentences)."

BuildPrompt(emotion_label, chord_label, key_label, descriptors, history) ==
  <<"You are the in-game for an interactive music-driven emotion responder, analyses all chord progressions and given the response of the whole song.", NL>>
  \o <<"Craft a reacting to the player's latest key.", NL>>
  \o <<"Detected key: ">> \o FormatOpt(key_label) \o <<".", NL>>
  \o KeyInfo(key_label)
  \o <<"Predicted emotion: ">> \o emotion_label \o <<".", NL>>
  \o <<"Audio descriptors:", NL>>
  \o DescriptorBlock(descriptors) \o <<NL>>
  \o <<PreviousDialogueHeader, NL>>
  \o ContextBlock(history) \o <<NL>>
  \o <<ClosingInstruction>>

(* ---------------------------------------------------------------------- *)
(* The inference service's answer to one request                            *)
(* ---------------------------------------------------------------------- *)
\* a value of a field of the JSON body; "absent" is a key the object lacks
Field(t, s, n) == [t |-> t, s |-> s, n |-> n]

Absent == Field("absent", <<>>, 0)

JsonNull == Field("null", <<>>, 0)

JsonStr(s) == Field("str", s, 0)

JsonNum(n) == Field("num", <<>>, n)

\* a response body: not JSON at all, a JSON array, or a JSON object
Body(json, response, text) == [json |-> json, response |-> response, text |-> text]

NoBody == Body("invalid", Absent, Absent)

\* what client.post raises when no HTTP response is obtained: the service is
\* down or its name does not resolve (ConnectError), or the timeout expires
\* while connecting or while waiting for the response
TransportErrors == {"ConnectError", "ConnectTimeout", "ReadTimeout"}

\* a handler that catches only the refused connection
IsConnectError(err) == err = "ConnectError"

\* except httpx.RequestError: the classes of httpx below RequestError
IsRequestError(err) ==
  err \in { "ConnectError", "ConnectTimeout", "ReadTimeout", "WriteTimeout",
            "PoolTimeout", "ReadError", "WriteError", "CloseError",
            "ProtocolError", "ProxyError", "UnsupportedProtocol",
            "DecodingError", "TooManyRedirects" }

NoAnswer == [kind |-> "none", err |-> "", status |-> 0, body |-> NoBody]

TransportFailure(err) == [kind |-> "error", err |-> err, status |-> 0, body |-> NoBody]

HttpResponse(status, body) == [kind |-> "response", err |-> "", status |-> status, body |-> body]

(* ---------------------------------------------------------------------- *)
(* Input sets                                                               *)
(* ---------------------------------------------------------------------- *)
\* values of the body's response field
ResponseValues ==
  { Absent, JsonNull, JsonStr(<<>>), JsonStr(<<" ">>),
    JsonStr(<<" ", "H", "i", ".", NL>>), JsonNum(7) }

\* values of the body's text field
TextValues == { Absent, JsonStr(<<>>), JsonStr(<<"o", "k", " ">>) }

Bodies ==
  { NoBody, Body("array", Absent, Absent) }
    \cup { Body("object", r, t) : r \in ResponseValues, t \in TextValues }

SuccessStatuses == {200}

ErrorStatuses == {400, 404, 500}

Answers ==
  { TransportFailure(e) : e \in TransportErrors }
    \cup { HttpResponse(st, NoBody) : st \in ErrorStatuses }
    \cup { HttpResponse(st, b) : st \in SuccessStatuses, b \in Bodies }

Host == "http://localhost:11434"

BaseUrls == { <<Host>>, <<Host, "/">>, <<Host, "/", "/">> }

Models == { <<"l","l","a","m","a","3">>, <<"m","x">> }

Timeouts == {30}

EmotionLabels == { <<"s","a","d">>, <<"j","o","y">> }

ChordLabels == { <<"A","m">>, <<"G","7">> }

KeyLabels == { None, Some(<<>>), Some(<<"C">>) }

DescriptorSets ==
  { None, Some(<<>>),
    Some(<< [key |-> <<"b","p","m">>, value |-> FloatValue(2)],
            [key |-> <<"m","o","o","d">>, value |-> StrValue(<<"c","a","l","m">>)] >>) }

Turns ==
  { DialogueTurn(<<"u","s","e","r">>, <<"h","i">>),
    DialogueTurn(<<"A","I">>, <<"o","k">>),
    DialogueTurn(<<"m","y"," ","b","o","t">>, <<"H","i">>),
    DialogueTurn(<<"a","s","s","i","s","t","a","n","t">>, <<"a", NL, "b">>) }

Histories ==
  { None } \cup { Some(h) : h \in UNION { [1..n -> Turns] : n \in 0..MaxHistory } }

Args(e, ch, k, d, h) ==
  [emotion_label |-> e, chord_label |-> ch, key_label |-> k,
   descriptors |-> d, history |-> h]

NoArgs == Args(<<>>, <<>>, None, None, None)

\* the arguments the prompt builder is explored with
PromptInputs ==
  { Args(e, ch, k, d, h) :
      e \in EmotionLabels, ch \in ChordLabels, k \in KeyLabels,
      d \in DescriptorSets, h \in Histories }

\* the arguments the concurrent callers use
ClientArgs ==
  { Args(<<"s","a","d">>, <<"A","m">>, None, None, None),
    Args(<<"j","o","y">>, <<"G","7">>, Some(<<"C">>), Some(<<>>),
         Some(<<DialogueTurn(<<"u","s","e","r">>, <<"h","i">>)>>)) }

(* ---------------------------------------------------------------------- *)
(* State                                                                    *)
(* ---------------------------------------------------------------------- *)
VARIABLES
  cfg,       \* self.base_url, self.model, self.timeout
  pc,        \* where each call of generate stands
  args,      \* the arguments of each call
  payload,   \* the payload each call built
  client,    \* the httpx.Client each call holds (0: none)
  open,      \* the httpx.Client objects that are open
  requests,  \* the requests each call has sent, in order
  answer,    \* what each call's client.post obtained
  result     \* what each call gives its caller: a turn or a failure

vars == <<cfg, pc, args, payload, client, open, requests, answer, result>>

NoPayload == [model |-> <<>>, prompt |-> <<>>, stream |-> FALSE]

NoResult == [kind |-> "none", turn |-> DialogueTurn("", <<>>), exc |-> ""]

Returned(turn) == [kind |-> "turn", turn |-> turn, exc |-> ""]

Raised(exc) == [kind |-> "raise", turn |-> DialogueTurn("", <<>>), exc |-> exc]

\* OllamaClient.__init__
NewOllamaClient(base_url, model, timeout) ==
  [base_url |-> RStripSlash(base_url), model |-> model, timeout |-> timeout]

Init ==
  /\ cfg \in { NewOllamaClient(b, m, t) : b \in BaseUrls, m \in Models, t \in Timeouts }
  /\ pc = [c \in Calls |-> "idle"]
  /\ args = [c \in Calls |-> NoArgs]
  /\ payload = [c \in Calls |-> NoPayload]
  /\ client = [c \in Calls |-> 0]
  /\ open = {}
  /\ requests = [c \in Calls |-> <<>>]
  /\ answer = [c \in Calls |-> NoAnswer]
  /\ result = [c \in Calls |-> NoResult]

(* ---------------------------------------------------------------------- *)
(* OllamaClient.generate                                                    *)
(* ---------------------------------------------------------------------- *)
\* lines 33-37: the payload, with the prompt built from the arguments
BuildPayload(model, a) ==
  [model |-> model,
   prompt |-> BuildPrompt(a.emotion_label, a.chord_label, a.key_label,
                          a.descriptors, a.history),
   stream |-> FALSE]

\* one client kept for all calls
SharedClient(c) == 1

\* httpx.Client(timeout=...): a new object made by this call; the object is
\* named after the call that made it
NewClient(c) == c

\* the request client.post sends
PostRequest(c) ==
  [url |-> cfg.base_url \o <<"/api/generate">>, json |-> payload[c],
   timeout |-> cfg.timeout, via |-> client[c]]

\* a post that is tried a second time
SendWithRetry(sent, req) == Append(Append(sent, req), req)

\* client.post issues the request once
SendRequest(sent, req) == Append(sent, req)

\* response.raise_for_status(): raises HTTPStatusError unless 2xx
RaisesForStatus(status) == ~(200 <= status /\ status < 300)

\* a handler that re-raises every status error
ReraiseStatusError(model, status) == Raised("HTTPStatusError")

\* a handler that turns every status error into the not-found turn
MaskStatusError(model, status) ==
  Returned(DialogueTurn("assistant",
    <<"Error: Model '">> \o model
      \o <<"' not found. Please ensure it is pulled in Ollama (e.g., 'ollama pull ">>
      \o model \o <<"').">>))

\* lines 44-50 (the message's two back quotes are written as ' here)
OnHTTPStatusError(model, status) ==
  IF status = 404
    THEN Returned(DialogueTurn("assistant",
           <<"Error: Model '">> \o model
             \o <<"' not found. Please ensure it is pulled in Ollama (e.g., 'ollama pull ">>
             \o model \o <<"').">>))
    ELSE Raised("HTTPStatusError")

\* lines 51-55
OnRequestError ==
  Returned(DialogueTurn("assistant",
    <<"Error: Could not connect to Ollama. Is the service running?">>))

\* data.get(key): None when the key is missing
Get(data, key) ==
  LET f == IF key = "response" THEN data.response ELSE data.text
  IN  IF f.t = "absent" THEN JsonNull ELSE f

\* truth value of a JSON value under Python's or
Truthy(f) == (f.t = "str" /\ f.s # <<>>) \/ (f.t = "num" /\ f.n # 0)

FallbackContent == JsonStr(<<"I need more data to respond.">>)

\* a lookup that prefers text over response
ExtractTextFirst(data) ==
  IF Truthy(Get(data, "text")) THEN Get(data, "text")
  ELSE IF Truthy(Get(data, "response")) THEN Get(data, "response")
  ELSE FallbackContent

\* line 57
ExtractContent(data) ==
  IF Truthy(Get(data, "response")) THEN Get(data, "response")
  ELSE IF Truthy(Get(data, "text")) THEN Get(data, "text")
  ELSE FallbackContent

\* lines 57-58: data.get fails on a body that is no object, strip on a
\* content that is no str
OnSuccess(data) ==
  IF data.json # "object" THEN Raised("AttributeError")
  ELSE IF ExtractContent(data).t # "str" THEN Raised("AttributeError")
  ELSE Returned(DialogueTurn("assistant", Strip(ExtractContent(data).s)))

\* lines 41-58: what the call ends with, given what client.post obtained
Outcome(model, ans) ==
  IF ans.kind = "error"
    THEN IF IsRequestError(ans.err) THEN OnRequestError ELSE Raised(ans.err)
  ELSE IF RaisesForStatus(ans.status)
    THEN OnHTTPStatusError(model, ans.status)
  ELSE IF ans.body.json = "invalid"
    THEN Raised("JSONDecodeError")
  ELSE OnSuccess(ans.body)

\* a block exit that leaves the client open
LeaveOpen(opened, id) == opened

\* leaving the with httpx.Client(...) block closes the client
ExitClient(opened, id) == opened \ {id}

\* lines 33-37
Build(c, a) ==
  /\ pc[c] = "idle"
  /\ args' = [args EXCEPT ![c] = a]
  /\ payload' = [payload EXCEPT ![c] = BuildPayload(cfg.model, a)]
  /\ pc' = [pc EXCEPT ![c] = "built"]
  /\ UNCHANGED <<cfg, client, open, requests, answer, result>>

\* line 39: entering the with block
Open(c) ==
  /\ pc[c] = "built"
  /\ LET id == NewClient(c)
     IN  /\ client' = [client EXCEPT ![c] = id]
         /\ open' = open \cup {id}
  /\ pc' = [pc EXCEPT ![c] = "open"]
  /\ UNCHANGED <<cfg, args, payload, requests, answer, result>>

\* line 41: client.post sends the request and waits
Post(c) ==
  /\ pc[c] = "open"
  /\ requests' = [requests EXCEPT ![c] = SendRequest(requests[c], PostRequest(c))]
  /\ pc' = [pc EXCEPT ![c] = "sent"]
  /\ UNCHANGED <<cfg, args, payload, client, open, answer, result>>

\* lines 41-58: client.post obtains a response or fails; the handlers run,
\* the with block is left, and the call ends with a turn or a failure
Receive(c, ans) ==
  /\ pc[c] = "sent"
  /\ answer' = [answer EXCEPT ![c] = ans]
  /\ result' = [result EXCEPT ![c] = Outcome(cfg.model, ans)]
  /\ open' = ExitClient(open, client[c])
  /\ pc' = [pc EXCEPT ![c] = "done"]
  /\ UNCHANGED <<cfg, args, payload, client, requests>>

\* the caller takes the turn or the failure; the call's locals are gone
Return(c) ==
  /\ pc[c] = "done"
  /\ pc' = [pc EXCEPT ![c] = "idle"]
  /\ args' = [args EXCEPT ![c] = NoArgs]
  /\ payload' = [payload EXCEPT ![c] = NoPayload]
  /\ client' = [client EXCEPT ![c] = 0]
  /\ requests' = [requests EXCEPT ![c] = <<>>]
  /\ answer' = [answer EXCEPT ![c] = NoAnswer]
  /\ result' = [result EXCEPT ![c] = NoResult]
  /\ UNCHANGED <<cfg, open>>

Next ==
  \/ \E c \in Calls, a \in ClientArgs : Build(c, a)
  \/ \E c \in Calls : Open(c)
  \/ \E c \in Calls : Post(c)
  \/ \E c \in Calls, ans \in Answers : Receive(c, ans)
  \/ \E c \in Calls : Return(c)

Spec == Init /\ [][Next]_vars

\* the prompt builder alone, over the wide input set
BuildAny == \E a \in PromptInputs : Build(1, a)

ReturnBuilt ==
  /\ pc[1] = "built"
  /\ pc' = [pc EXCEPT ![1] = "idle"]
  /\ args' = [args EXCEPT ![1] = NoArgs]
  /\ payload' = [payload EXCEPT ![1] = NoPayload]
  /\ UNCHANGED <<cfg, client, open, requests, answer, result>>

NextPrompt == BuildAny \/ ReturnBuilt

SpecPrompt == Init /\ [][NextPrompt]_vars

(* ---------------------------------------------------------------------- *)
(* Vocabulary of the properties                                             *)
(* ---------------------------------------------------------------------- *)
\* needle occurs in hay as a contiguous run of symbols
Contains(hay, needle) ==
  \E i \in 0..(Len(hay) - Len(needle)) : SubSeq(hay, i + 1, i + Len(needle)) = needle

HasLineBreak(s) == \E i \in 1..Len(s) : s[i] = NL

RECURSIVE SplitLines(_)
SplitLines(s) ==
  IF ~HasLineBreak(s) THEN <<s>>
  ELSE LET k == CHOOSE i \in 1..Len(s) : s[i] = NL /\ \A j \in 1..(i-1) : s[j] # NL
       IN  <<SubSeq(s, 1, k - 1)>> \o SplitLines(SubSeq(s, k + 1, Len(s)))

\* the lines of a text; the empty text has none
Lines(s) == IF s = <<>> THEN <<>> ELSE SplitLines(s)

\* the previous-dialogue block of a prompt: what stands between the header
\* line and the line break before the closing instruction
PromptBlock(prompt) ==
  LET h == CHOOSE i \in 1..Len(prompt) : prompt[i] = PreviousDialogueHeader
  IN  SubSeq(prompt, h + 2, Len(prompt) - 2)

\* t is s in title case: the same letters, each word's first letter a
\* capital and its other letters small
IsTitleCaseOf(t, s) ==
  /\ Len(t) = Len(s)
  /\ \A i \in 1..Len(s) :
       /\ Lower(t[i]) = Lower(s[i])
       /\ IsCased(s[i]) =>
            IF i = 1 \/ ~IsCased(s[i-1]) THEN IsUpper(t[i]) ELSE IsLower(t[i])

\* line renders turn: the role in title case, ": ", the content
RendersTurn(line, turn) ==
  /\ Len(line) = Len(turn.role) + 2 + Len(turn.content)
  /\ IsTitleCaseOf(SubSeq(line, 1, Len(turn.role)), turn.role)
  /\ SubSeq(line, Len(turn.role) + 1, Len(turn.role) + 2) = <<":", " ">>
  /\ SubSeq(line, Len(turn.role) + 3, Len(line)) = turn.content

NonEmptyHistory(h) == h.some /\ h.v # <<>>

SingleLineHistory(h) ==
  \A i \in 1..Len(h.v) : ~HasLineBreak(h.v[i].role) /\ ~HasLineBreak(h.v[i].content)

\* the block has one line per turn, in the order of the history
OneLinePerTurn(block, h) ==
  /\ Len(Lines(block)) = Len(h.v)
  /\ \A i \in 1..Len(h.v) : RendersTurn(Lines(block)[i], h.v[i])

Finished(c) == pc[c] = "done"

GotStatus(c, st) == Finished(c) /\ answer[c].kind = "response" /\ answer[c].status = st

ReturnedTurn(c) == result[c].kind = "turn"

UnreachableMessage == <<"Error: Could not connect to Ollama. Is the service running?">>

FallbackLine == <<"I need more data to respond.">>

(* ---------------------------------------------------------------------- *)
(* Properties                                                               *)
(* ---------------------------------------------------------------------- *)
\* C1: a call the service answers with status 404 returns a turn with role
\* "assistant" whose content names the configured model; it does not fail.
NotFoundYieldsTurn ==
  \A c \in Calls :
    GotStatus(c, 404) =>
      /\ ReturnedTurn(c)
      /\ result[c].turn.role = "assistant"
      /\ Contains(result[c].turn.content, cfg.model)

NotFoundYieldsTurnWitness ==
  \E c \in Calls : GotStatus(c, 404) /\ ReturnedTurn(c)

\* C2: a call that obtains no HTTP response (service down, name not resolved,
\* timeout expired) returns a turn with role "assistant" and the fixed
\* could-not-reach message and does not fail; every finished call either
\* obtained a response or ended this way.
UnreachableYieldsTurn ==
  \A c \in Calls :
    Finished(c) =>
      /\ answer[c].kind \in {"response", "error"}
      /\ answer[c].kind = "error" =>
           /\ ReturnedTurn(c)
           /\ result[c].turn = DialogueTurn("assistant", UnreachableMessage)

UnreachableYieldsTurnWitness ==
  \E c \in Calls :
    /\ Finished(c)
    /\ answer[c].kind = "error"
    /\ answer[c].err = "ReadTimeout"
    /\ ReturnedTurn(c)

\* C3: a call the service answers with an error status other than 404 ends in
\* a failure and returns no turn; 404 is the only error status turned into a
\* turn.
OtherStatusPropagates ==
  \A c \in Calls :
    (Finished(c) /\ answer[c].kind = "response" /\ answer[c].status >= 400) =>
      /\ answer[c].status # 404 => result[c].kind = "raise"
      /\ ReturnedTurn(c) => answer[c].status = 404

OtherStatusPropagatesWitness ==
  \E c \in Calls : GotStatus(c, 500) /\ result[c].kind = "raise"

IsSuccess(c) ==
  /\ Finished(c)
  /\ answer[c].kind = "response"
  /\ answer[c].status \in 200..299
  /\ answer[c].body.json = "object"

NonEmptyStr(f) == f.t = "str" /\ Len(f.s) > 0

OneRequestPerCall ==
  \A c \in Calls :
    /\ Len(requests[c]) <= 1
    /\ pc[c] \in {"idle", "built", "open"} => Len(requests[c]) = 0
    /\ pc[c] \in {"sent", "done"} => Len(requests[c]) = 1
    /\ Len(requests[c]) >= 1 =>
         /\ payload[c] # NoPayload
         /\ requests[c][1].json = payload[c]
         /\ Len(payload[c].prompt) > 0

OneRequestPerCallWitness ==
  \E c \in Calls :
    /\ Finished(c)
    /\ result[c].kind = "raise"
    /\ Len(requests[c]) = 1

Running(c) == pc[c] \in {"open", "sent"}

\* C6: the client a call acquired is closed when the call has returned or
\* raised, on every path; only running calls have an open client.
ClientReleased ==
  /\ \A c \in Calls : Finished(c) => client[c] \notin open
  /\ open \subseteq { client[c] : c \in { d \in Calls : Running(d) } }

ClientReleasedWitness ==
  \E c \in Calls :
    /\ Finished(c)
    /\ answer[c].kind = "error"
    /\ client[c] # 0
    /\ client[c] \notin open

\* the part of the state that belongs to call c
CallState(c) == <<pc[c], args[c], payload[c], client[c], requests[c], answer[c], result[c]>>

\* C9: calls on one client are independent under every interleaving: the
\* configuration never changes, each running call has its own open client
\* and sends through it, a step of one call changes no other call's state,
\* and calls with equal arguments and equal answers end alike.
CallsIndependent ==
  [][ /\ cfg' = cfg
      /\ \A c \in Calls :
           /\ Running(c)' => client'[c] \in open'
           /\ Len(requests'[c]) >= 1 => requests'[c][1].via = client'[c]
      /\ \A c, d \in Calls :
           c # d =>
             /\ (Running(c)' /\ Running(d)') => client'[c] # client'[d]
             /\ CallState(c)' # CallState(c) => CallState(d)' = CallState(d)
             /\ (Finished(c)' /\ Finished(d)' /\ args'[c] = args'[d]
                   /\ answer'[c] = answer'[d]) => result'[c] = result'[d]
    ]_vars

CallsIndependentWitness ==
  \E c, d \in Calls :
    /\ c # d
    /\ Finished(c)
    /\ pc[d] = "sent"
    /\ client[c] # client[d]
    /\ client[d] \in open

\* C10 as claimed: every turn a call returns has role "assistant" and a
\* content that is not empty.
TurnContentNonEmpty ==
  \A c \in Calls :
    (Finished(c) /\ ReturnedTurn(c)) =>
      /\ result[c].turn.role = "assistant"
      /\ Len(result[c].turn.content) > 0

Built(c) == pc[c] = "built"

\* C7 as claimed: for a non-empty history the previous-dialogue block of the
\* built prompt has exactly one line per turn, in the order of the history,
\* each the role in title case, ": " and the content; an empty or absent
\* history gives no line.
HistoryOneLinePerTurn ==
  \A c \in Calls :
    Built(c) =>
      IF NonEmptyHistory(args[c].history)
        THEN OneLinePerTurn(PromptBlock(payload[c].prompt), args[c].history)
        ELSE Lines(PromptBlock(payload[c].prompt)) = <<>>

\* C7 as amended: for a non-empty history none of whose roles and contents
\* holds a line break, the block has exactly one line per turn, in the order
\* of the history, each the role in title case, ": " and the content; an
\* empty or absent history gives no line.
HistorySingleLineTurns ==
  \A c \in Calls :
    Built(c) =>
      IF NonEmptyHistory(args[c].history)
        THEN SingleLineHistory(args[c].history) =>
               OneLinePerTurn(PromptBlock(payload[c].prompt), args[c].history)
        ELSE Lines(PromptBlock(payload[c].prompt)) = <<>>

HistorySingleLineTurnsWitness ==
  \E c \in Calls :
    /\ Built(c)
    /\ args[c].history.some
    /\ Len(args[c].history.v) = 2
    /\ args[c].history.v[1] # args[c].history.v[2]
    /\ SingleLineHistory(args[c].history)
    /\ Len(Lines(PromptBlock(payload[c].prompt))) = 2

\* C8 as claimed: the built prompt holds the emotion label and the chord
\* label, each unchanged.
LabelsEchoed ==
  \A c \in Calls :
    Built(c) =>
      /\ Contains(payload[c].prompt, args[c].emotion_label)
      /\ Contains(payload[c].prompt, args[c].chord_label)

====
